---- MODULE Spec2Model ----
(***************************************************************************)
(* CircularBuffer<T, Buffer>: a ring buffer over a contiguous block of     *)
(* capacity + 1 slots (one sentinel slot), with two cursors m_head and     *)
(* m_tail.  Pointers into the block are modelled as integer offsets from   *)
(* the first slot of the block (bufferBegin is offset 0); pointer          *)
(* arithmetic and pointer comparison are integer arithmetic and integer    *)
(* comparison on those offsets, so one-before-the-block is offset -1 and   *)
(* one-past-the-block is offset std::size(m_buffer).                       *)
(*                                                                         *)
(* A buffer object is a record: m_buffer is the memory its pointers can    *)
(* address (a function from address + 1 to the element stored there),      *)
(* m_begin the address of the first slot of its storage block, m_size the  *)
(* number of slots of the block (std::size(m_buffer)), and m_head, m_tail  *)
(* the two cursors, as addresses.  A lone buffer has its block at address  *)
(* 0; buffers that are copied and moved share one memory and have their    *)
(* blocks at different addresses of it.  The field outside is what a read  *)
(* of an address outside that memory is reported as.                       *)
(***************************************************************************)
EXTENDS Integers, Sequences, FiniteSets

\* ---------------------------------------------------------------- bounds
MaxCapacity == 3      \* capacities 0..MaxCapacity are constructed
MaxValue    == 2      \* pushed values are 1..MaxValue
MaxOps      == 6      \* pushBack + popFront calls per behaviour
MaxCount    == 5      \* findNthRecent is asked for 0..MaxCount elements

Capacities == 0..MaxCapacity
Values     == 1..MaxValue
Counts     == 0..MaxCount

\* T{}: the value of a value-initialised slot (int)
DefaultValue == 0
\* what a read outside the storage block is reported as
OutOfBlock == -1

Min(x, y) == IF x <= y THEN x ELSE y

\* ------------------------------------------------------- storage backend
\* VectorBuffer(size): m_container(size + 1), value-initialised
VectorBuffer(capacity) == [i \in 1..(capacity + 1) |-> DefaultValue]

\* ------------------------------------------------------------- the block
bufferBegin(b) == b.m_begin
bufferEnd(b)   == bufferBegin(b) + b.m_size

\* *p
Deref(b, p) ==
    IF (p + 1) \in DOMAIN b.m_buffer THEN b.m_buffer[p + 1] ELSE b.outside

Store_andNext(b, p, v) ==
    [b EXCEPT !.m_buffer = [a \in DOMAIN b.m_buffer |->
                               IF a = p + 1 \/ a = p + 2 THEN v ELSE b.m_buffer[a]]]

\* *p = v
Store(b, p, v) ==
    IF (p + 1) \in DOMAIN b.m_buffer
    THEN [b EXCEPT !.m_buffer[p + 1] = v]
    ELSE b

\* explicit CircularBuffer(SizeType capacity)
CircularBuffer(capacity) ==
    [m_buffer |-> VectorBuffer(capacity), outside |-> OutOfBlock,
     m_begin |-> 0, m_size |-> capacity + 1,
     m_head |-> 0, m_tail |-> 0]

size_strictCompare(b) ==
    IF b.m_tail > b.m_head
    THEN b.m_tail - b.m_head
    ELSE (bufferEnd(b) - b.m_head) + (b.m_tail - bufferBegin(b))

size_noWrap(b) == b.m_tail - b.m_head

\* size()
size(b) ==
    IF b.m_tail >= b.m_head
    THEN b.m_tail - b.m_head
    ELSE (bufferEnd(b) - b.m_head) + (b.m_tail - bufferBegin(b))

empty(b) == b.m_tail = b.m_head

\* --------------------------------------------------------------- iterator
IteratorImpl(bb, be, pos) ==
    [m_bufferBegin |-> bb, m_bufferEnd |-> be, m_current |-> pos]

IterInc_noWrap(it) == [it EXCEPT !.m_current = it.m_current + 1]

IterInc(it) ==
    LET c == it.m_current + 1
    IN  [it EXCEPT !.m_current = IF c = it.m_bufferEnd THEN it.m_bufferBegin ELSE c]

IterDec_noWrap(it) == [it EXCEPT !.m_current = it.m_current - 1]

IterDec_wrapToEnd(it) ==
    LET c == it.m_current - 1
    IN  [it EXCEPT !.m_current = IF c < it.m_bufferBegin THEN it.m_bufferEnd ELSE c]

IterDec(it) ==
    LET c == it.m_current - 1
    IN  [it EXCEPT !.m_current = IF c < it.m_bufferBegin THEN it.m_bufferEnd - 1 ELSE c]

IterEq(left, right) == left.m_current = right.m_current

begin(b) == IteratorImpl(bufferBegin(b), bufferEnd(b), b.m_head)
end(b)   == IteratorImpl(bufferBegin(b), bufferEnd(b), b.m_tail)

back_prevTail(b) == Deref(b, b.m_tail - 1)

back(b)  == Deref(b, IterDec(end(b)).m_current)
front(b) == Deref(b, begin(b).m_current)

findNthRecent_noWrap(b, requestedCount) ==
    LET count == Min(requestedCount, size(b))
    IN  IteratorImpl(bufferBegin(b), bufferEnd(b), b.m_tail - count)

findNthRecent_noClamp(b, requestedCount) ==
    LET start      == b.m_tail - requestedCount
        startIndex == start - bufferBegin(b)
    IN  IteratorImpl(bufferBegin(b), bufferEnd(b),
                     IF startIndex < 0 THEN bufferEnd(b) + startIndex ELSE start)

findNthRecent(b, requestedCount) ==
    LET count      == Min(requestedCount, size(b))
        start      == b.m_tail - count
        startIndex == start - bufferBegin(b)
    IN  IteratorImpl(bufferBegin(b), bufferEnd(b),
                     IF startIndex < 0 THEN bufferEnd(b) + startIndex ELSE start)

\* for (it = first; it != last; ++it) collect *it; gives up after fuel steps
RECURSIVE Walk(_, _, _, _)
Walk(b, it, last, fuel) ==
    IF IterEq(it, last) \/ fuel = 0
    THEN << >>
    ELSE << Deref(b, it.m_current) >> \o Walk(b, IterInc(it), last, fuel - 1)

\* the elements of the half-open range [first, last)
Range(b, first, last) == Walk(b, first, last, b.m_size + 1)

\* the logical content: [begin(), end())
Content(b) == Range(b, begin(b), end(b))

\* mostRecent(count): subrange(findNthRecent(count), cend())
mostRecent(b, count) == Range(b, findNthRecent(b, count), end(b))

\* for (it = first; it != last; ++it): the positions the loop body sees
RECURSIVE ForwardLoop(_, _, _)
ForwardLoop(it, last, fuel) ==
    IF IterEq(it, last) \/ fuel = 0
    THEN << >>
    ELSE << it.m_current >> \o ForwardLoop(IterInc(it), last, fuel - 1)

\* for (it = first; it != last; --it): the positions the loop body sees
RECURSIVE ReverseLoop(_, _, _)
ReverseLoop(it, last, fuel) ==
    IF IterEq(it, last) \/ fuel = 0
    THEN << >>
    ELSE << it.m_current >> \o ReverseLoop(IterDec(it), last, fuel - 1)

\* for (it = begin(); it != end(); ++it)
ForwardPositions(b) == ForwardLoop(begin(b), end(b), b.m_size + 1)

\* for (it = std::prev(end()); it != std::prev(begin()); --it)
ReversePositions(b) ==
    ReverseLoop(IterDec(end(b)), IterDec(begin(b)), b.m_size + 1)

\* ------------------------------------------------------------- mutations
shiftFront_noWrap(b) == [b EXCEPT !.m_head = b.m_head + 1]

shiftFront(b) ==
    LET h == b.m_head + 1
    IN  [b EXCEPT !.m_head = IF h = bufferEnd(b) THEN bufferBegin(b) ELSE h]

pushBack_noShift(b, v) ==
    LET w == Store(b, b.m_tail, v)
        t == b.m_tail + 1
    IN  [buf |-> [w EXCEPT !.m_tail = IF t = bufferEnd(b) THEN bufferBegin(b) ELSE t],
         insertedRef |-> b.m_tail]

pushBack_noWrap(b, v) ==
    LET w  == Store(b, b.m_tail, v)
        b1 == [w EXCEPT !.m_tail = b.m_tail + 1]
        b2 == IF b1.m_tail = b1.m_head THEN shiftFront(b1) ELSE b1
    IN  [buf |-> b2, insertedRef |-> b.m_tail]

pushBack_returnsNewTail(b, v) ==
    LET w  == Store(b, b.m_tail, v)
        t  == b.m_tail + 1
        b1 == [w EXCEPT !.m_tail = IF t = bufferEnd(b) THEN bufferBegin(b) ELSE t]
        b2 == IF b1.m_tail = b1.m_head THEN shiftFront(b1) ELSE b1
    IN  [buf |-> b2, insertedRef |-> b2.m_tail]

\* returns the buffer after the call and the returned reference (a position)
pushBack(b, v) ==
    LET w  == Store(b, b.m_tail, v)
        t  == b.m_tail + 1
        b1 == [w EXCEPT !.m_tail = IF t = bufferEnd(b) THEN bufferBegin(b) ELSE t]
        b2 == IF b1.m_tail = b1.m_head THEN shiftFront(b1) ELSE b1
    IN  [buf |-> b2, insertedRef |-> b.m_tail]

popFront_noEmptyCheck(b) ==
    LET h == b.m_head + 1
    IN  [b EXCEPT !.m_head = IF h = bufferEnd(b) THEN bufferBegin(b) ELSE h]

popFront_noWrap(b) ==
    IF ~empty(b) THEN [b EXCEPT !.m_head = b.m_head + 1] ELSE b

popFront_fromBack(b) ==
    IF ~empty(b)
    THEN LET t == b.m_tail - 1
         IN  [b EXCEPT !.m_tail = IF t < bufferBegin(b) THEN bufferEnd(b) - 1 ELSE t]
    ELSE b

\* popFront()
popFront(b) ==
    IF ~empty(b)
    THEN LET h == b.m_head + 1
         IN  [b EXCEPT !.m_head = IF h = bufferEnd(b) THEN bufferBegin(b) ELSE h]
    ELSE b


\* ============================================================================
\* Copying and moving: two buffer objects of Trackable elements in one memory
\* ============================================================================
MaxCMCapacity == 2    \* capacities 0..MaxCMCapacity
MaxCMOps      == 3    \* pushBack + popFront calls per behaviour
MaxTransfers  == 1    \* copy/move constructions and assignments per behaviour

CMCapacities == 0..MaxCMCapacity
Slots        == {1, 2}                   \* the two named buffer objects
Kinds        == {"vector", "array"}      \* heap-backed, fixed-storage
\* "part_000": src/unnamed/part_000 lines 1..340;
\* "hpp": src/include/circularBuffer.hpp
Revisions    == {"part_000", "hpp"}

\* operator=(CircularBuffer&&) and operator=(const CircularBuffer&) start with
\* if (this == &other) return *this;
HasSelfCheck(rev) == rev = "part_000"
\* Pointer m_head = nullptr; Pointer m_tail = nullptr;
HasCursorDefaults(rev) == rev = "part_000"

\* ------------------------------------------------------------- Trackable
Trackable(v) == [m_value |-> v, m_copies |-> 0, m_moves |-> 0]

\* Trackable(const Trackable&) and operator=(const Trackable&)
TrackableCopy(other) ==
    [m_value |-> other.m_value, m_copies |-> other.m_copies + 1, m_moves |-> other.m_moves]

\* Trackable(Trackable&&) and operator=(Trackable&&)
TrackableMove(other) ==
    [m_value |-> other.m_value, m_copies |-> other.m_copies, m_moves |-> other.m_moves + 1]

\* memory that holds no constructed element
RawTrackable == [m_value |-> OutOfBlock, m_copies |-> 0, m_moves |-> 0]

\* ---------------------------------------------------------------- memory
\* One region per object and one for a temporary, far from address 0 so
\* that no displacement taken from a null pointer lands inside a region.
NullPtr      == 0
RegionStride == MaxCMCapacity + 2
ArenaBase    == 10 * RegionStride
TempRegion   == Cardinality(Slots) + 1
Regions      == 1..TempRegion
RegionBase(r) == ArenaBase + (r - 1) * RegionStride
ArenaEnd     == RegionBase(TempRegion) + RegionStride

\* memory is keyed by address + 1, as Deref and Store read it
RawMemory == [a \in (ArenaBase + 1)..ArenaEnd |-> RawTrackable]

\* the n elements stored from address base on
Cells(memory, base, n) ==
    [i \in 1..n |-> IF (base + i) \in DOMAIN memory THEN memory[base + i] ELSE RawTrackable]

WriteCells(memory, base, cells) ==
    [a \in DOMAIN memory |->
        IF (a - base) \in 1..Len(cells) THEN cells[a - base] ELSE memory[a]]

\* an object is the members of CircularBuffer without the memory; View adds
\* the memory so that the member functions above apply to it
View(memory, o) ==
    [m_buffer |-> memory, outside |-> RawTrackable, kind |-> o.kind,
     m_begin |-> o.m_begin, m_size |-> o.m_size,
     m_head |-> o.m_head, m_tail |-> o.m_tail]

Object(v) ==
    [kind |-> v.kind, m_begin |-> v.m_begin, m_size |-> v.m_size,
     m_head |-> v.m_head, m_tail |-> v.m_tail]

\* ------------------------------------------------------ storage backends
\* VectorBuffer(size): size + 1 value-initialised elements
VectorBlock(capacity) ==
    [i \in DOMAIN VectorBuffer(capacity) |-> Trackable(VectorBuffer(capacity)[i])]

ConstexprSizeBuffer_noSentinel(Size) == [i \in 1..Size |-> Trackable(DefaultValue)]

\* ConstexprSizeBuffer<Type, Size>: std::array<Type, Size + 1>
ConstexprSizeBuffer(Size) == [i \in 1..(Size + 1) |-> Trackable(DefaultValue)]

Constructed_defaultCursors(memory, kind, base, capacity) ==
    LET cells == IF kind = "vector" THEN VectorBlock(capacity)
                                    ELSE ConstexprSizeBuffer(capacity)
    IN  [mem |-> WriteCells(memory, base, cells),
         this |-> [kind |-> kind, m_begin |-> base, m_size |-> Len(cells),
                   m_head |-> NullPtr, m_tail |-> NullPtr]]

\* CircularBuffer(capacity) / CircularBuffer(): the block at address base
Constructed(memory, kind, base, capacity) ==
    LET cells == IF kind = "vector" THEN VectorBlock(capacity)
                                    ELSE ConstexprSizeBuffer(capacity)
    IN  [mem |-> WriteCells(memory, base, cells),
         this |-> [kind |-> kind, m_begin |-> base, m_size |-> Len(cells),
                   m_head |-> base, m_tail |-> base]]

MovedCells(cells) == [i \in 1..Len(cells) |-> TrackableMove(cells[i])]
CopiedCells(cells) == [i \in 1..Len(cells) |-> TrackableCopy(cells[i])]

StdSwap_copying(memory, a, b) ==
    IF a.kind = "array"
    THEN LET tmp == CopiedCells(Cells(memory, a.m_begin, a.m_size))
             m1  == WriteCells(memory, a.m_begin,
                               CopiedCells(Cells(memory, b.m_begin, b.m_size)))
             m2  == WriteCells(m1, b.m_begin, CopiedCells(tmp))
         IN  [mem |-> m2, a |-> a, b |-> b]
    ELSE [mem |-> memory,
          a |-> [a EXCEPT !.m_begin = b.m_begin, !.m_size = b.m_size],
          b |-> [b EXCEPT !.m_begin = a.m_begin, !.m_size = a.m_size]]

StdSwap_elementwise(memory, a, b) ==
    LET tmp == MovedCells(Cells(memory, a.m_begin, a.m_size))
        m1  == WriteCells(memory, a.m_begin,
                          MovedCells(Cells(memory, b.m_begin, b.m_size)))
        m2  == WriteCells(m1, b.m_begin, MovedCells(tmp))
    IN  [mem |-> m2, a |-> a, b |-> b]

StdSwap_keepsSize(memory, a, b) ==
    IF a.kind = "array"
    THEN LET tmp == MovedCells(Cells(memory, a.m_begin, a.m_size))
             m1  == WriteCells(memory, a.m_begin,
                               MovedCells(Cells(memory, b.m_begin, b.m_size)))
             m2  == WriteCells(m1, b.m_begin, MovedCells(tmp))
         IN  [mem |-> m2, a |-> a, b |-> b]
    ELSE [mem |-> memory,
          a |-> [a EXCEPT !.m_begin = b.m_begin],
          b |-> [b EXCEPT !.m_begin = a.m_begin]]

\* std::swap(a.m_buffer, b.m_buffer): T tmp(move(a)); a = move(b); b = move(tmp).
\* A vector hands over its block; a std::array moves element by element.
StdSwap(memory, a, b) ==
    IF a.kind = "array"
    THEN LET tmp == MovedCells(Cells(memory, a.m_begin, a.m_size))
             m1  == WriteCells(memory, a.m_begin,
                               MovedCells(Cells(memory, b.m_begin, b.m_size)))
             m2  == WriteCells(m1, b.m_begin, MovedCells(tmp))
         IN  [mem |-> m2, a |-> a, b |-> b]
    ELSE [mem |-> memory,
          a |-> [a EXCEPT !.m_begin = b.m_begin, !.m_size = b.m_size],
          b |-> [b EXCEPT !.m_begin = a.m_begin, !.m_size = a.m_size]]

Displacements_raw(b) == [m_head |-> b.m_head, m_tail |-> b.m_tail]

\* Displacements(const CircularBuffer&): head and tail as offsets from bufferBegin()
Displacements(b) ==
    [m_head |-> b.m_head - bufferBegin(b), m_tail |-> b.m_tail - bufferBegin(b)]

applyTo_swapped(d, b) ==
    [b EXCEPT !.m_head = bufferBegin(b) + d.m_tail, !.m_tail = bufferBegin(b) + d.m_head]

applyTo(d, b) ==
    [b EXCEPT !.m_head = bufferBegin(b) + d.m_head, !.m_tail = bufferBegin(b) + d.m_tail]

\* the body shared by the move constructor and move assignment; same tells
\* that temporary is *this
SwapWith(memory, this, temporary, same) ==
    LET mine  == Displacements(this)
        their == Displacements(temporary)
        sw    == StdSwap(memory, this, temporary)
    IN  IF same
        THEN LET me == applyTo(their, applyTo(mine, sw.a))
             IN  [mem |-> sw.mem, this |-> me, temporary |-> me]
        ELSE [mem |-> sw.mem, this |-> applyTo(their, sw.a),
              temporary |-> applyTo(mine, sw.b)]

moveAssign_noSelfCheck(rev, memory, this, temporary, same) ==
    SwapWith(memory, this, temporary, same)

\* operator=(CircularBuffer&& temporary)
moveAssign(rev, memory, this, temporary, same) ==
    IF HasSelfCheck(rev) /\ same
    THEN [mem |-> memory, this |-> this, temporary |-> temporary]
    ELSE SwapWith(memory, this, temporary, same)

\* CircularBuffer(CircularBuffer&& temporary), the new object at address base;
\* uninit is what m_head and m_tail hold when they have no initialiser
moveConstruct(rev, memory, base, temporary, uninit) ==
    LET array == temporary.kind = "array"
        cells == ConstexprSizeBuffer(temporary.m_size - 1)
        init  == IF HasCursorDefaults(rev) THEN [h |-> NullPtr, t |-> NullPtr] ELSE uninit
        this0 == [kind |-> temporary.kind,
                  m_begin |-> IF array THEN base ELSE NullPtr,
                  m_size |-> IF array THEN Len(cells) ELSE 0,
                  m_head |-> init.h, m_tail |-> init.t]
        mem0  == IF array THEN WriteCells(memory, base, cells) ELSE memory
    IN  SwapWith(mem0, this0, temporary, FALSE)

getIndex_absolute(otherBuffer, foreignIterator) == foreignIterator

\* getIndex(otherBuffer, foreignIterator): the iterator's offset in its own block
getIndex(otherBuffer, foreignIterator) == foreignIterator - bufferBegin(otherBuffer)

copyConstruct_rawCursors(memory, base, other) ==
    LET cells == CopiedCells(Cells(memory, other.m_begin, other.m_size))
        empty0 == other.kind = "vector" /\ other.m_size = 0
    IN  [mem |-> WriteCells(memory, base, cells),
         this |-> [kind |-> other.kind,
                   m_begin |-> IF empty0 THEN NullPtr ELSE base,
                   m_size |-> other.m_size,
                   m_head |-> other.m_head, m_tail |-> other.m_tail]]

\* CircularBuffer(const CircularBuffer& other), the new block at address base
copyConstruct(memory, base, other) ==
    LET cells == CopiedCells(Cells(memory, other.m_begin, other.m_size))
        empty0 == other.kind = "vector" /\ other.m_size = 0
        this0 == [kind |-> other.kind,
                  m_begin |-> IF empty0 THEN NullPtr ELSE base,
                  m_size |-> other.m_size,
                  m_head |-> NullPtr, m_tail |-> NullPtr]
    IN  [mem |-> WriteCells(memory, base, cells),
         this |-> [this0 EXCEPT
                     !.m_head = bufferBegin(this0) + getIndex(other, other.m_head),
                     !.m_tail = bufferBegin(this0) + getIndex(other, other.m_tail)]]

copyAssign_noSelfCheck(rev, memory, this, copy, same, base) ==
    LET tmp == copyConstruct(memory, base, copy)
        mv  == moveAssign(rev, tmp.mem, this, tmp.this, FALSE)
    IN  [mem |-> mv.mem, this |-> mv.this]

copyAssign_assignsCells(rev, memory, this, copy, same, base) ==
    LET cells == CopiedCells(Cells(memory, copy.m_begin, copy.m_size))
    IN  [mem |-> WriteCells(memory, this.m_begin, cells),
         this |-> [this EXCEPT
                     !.m_head = bufferBegin(this) + getIndex(copy, copy.m_head),
                     !.m_tail = bufferBegin(this) + getIndex(copy, copy.m_tail)]]

\* operator=(const CircularBuffer& copy) for a storage that is not nothrow
\* copy-assignable (Trackable elements): a temporary copy at address base is
\* move-assigned to *this
copyAssign(rev, memory, this, copy, same, base) ==
    IF HasSelfCheck(rev) /\ same
    THEN [mem |-> memory, this |-> this]
    ELSE LET tmp == copyConstruct(memory, base, copy)
             mv  == moveAssign(rev, tmp.mem, this, tmp.this, FALSE)
         IN  [mem |-> mv.mem, this |-> mv.this]

pushBackAt_copying(memory, o, v) ==
    LET r == pushBack(View(memory, o), TrackableCopy(Trackable(v)))
    IN  [mem |-> r.buf.m_buffer, this |-> Object(r.buf)]

\* pushBack(int): *m_tail = Trackable(v), a move assignment from a temporary
pushBackAt(memory, o, v) ==
    LET r == pushBack(View(memory, o), TrackableMove(Trackable(v)))
    IN  [mem |-> r.buf.m_buffer, this |-> Object(r.buf)]

popFrontAt(memory, o) == [mem |-> memory, this |-> Object(popFront(View(memory, o)))]

\* ------------------------------------------------------------------ state
VARIABLES
    capacity,   \* the capacity the buffer was constructed with
    buf,        \* the CircularBuffer object: m_buffer, m_head, m_tail
    prev,       \* the object as it was before the last call
    lastOp,     \* the last call made: "construct", "pushBack", "popFront", "findNthRecent"
    lastArg,    \* its argument (0 when it has none)
    result,     \* the position it returned (insertedRef, or the iterator's m_current); -1 if none
    pushed,     \* every value pushed so far, in push order
    popCount,   \* number of popFront calls so far
    queue       \* reference bounded FIFO queue run on the same calls

vars == << capacity, buf, prev, lastOp, lastArg, result, pushed, popCount, queue >>

VARIABLES
    revision,   \* which revision of the header the two objects are compiled from
    world,      \* mem: the memory; objs: the two buffer objects, by slot
    prevWorld,  \* world before the last call
    lastCall,   \* the last call: op, dst (the object called), src (its argument), arg
    copySnap,   \* the last copy from a source with cursors in its block: both contents
                \* right after it, and who was called since
    budget      \* calls made so far: ops (pushBack, popFront) and transfers (copy, move)

cmvars == << revision, world, prevWorld, lastCall, copySnap, budget >>

VARIABLES
    iter        \* a free-standing iterator: it (the IteratorImpl), trail (the positions
                \* it has had, oldest first), ops (the "++" and "--" applied to it)

allvars == << vars, cmvars, iter >>

MaxIterSteps == 5     \* ++ and -- applied to the iterator per behaviour

\* no free-standing iterator is run
NoIter == [it |-> IteratorImpl(NullPtr, NullPtr, NullPtr), trail |-> << >>, ops |-> << >>]

IterIdle == iter = NoIter

NoSnap ==
    [valid |-> FALSE, dst |-> 0, src |-> 0, dstContent |-> << >>, srcContent |-> << >>,
     touched |-> {}]

\* head and tail name slots of the object's own block
InBlock(o) ==
    /\ bufferBegin(o) <= o.m_head /\ o.m_head < bufferEnd(o)
    /\ bufferBegin(o) <= o.m_tail /\ o.m_tail < bufferEnd(o)

NoCall == [op |-> "construct", dst |-> 0, src |-> 0, arg |-> 0]

\* the copy/move variables while a lone buffer is run
CMIdle ==
    /\ revision = "part_000"
    /\ world = [mem |-> RawMemory, objs |-> << >>]
    /\ prevWorld = world
    /\ lastCall = NoCall
    /\ copySnap = NoSnap
    /\ budget = [ops |-> 0, transfers |-> 0]

NoResult == -1

\* reference queue: append v, then drop the oldest if longer than n
QueuePush(q, v, n) ==
    LET a == Append(q, v) IN IF Len(a) > n THEN Tail(a) ELSE a

\* reference queue: drop the oldest if there is one
QueuePop(q) == IF q # << >> THEN Tail(q) ELSE q

LoneInit ==
    /\ capacity \in Capacities
    /\ buf = CircularBuffer(capacity)
    /\ prev = buf
    /\ lastOp = "construct"
    /\ lastArg = 0
    /\ result = NoResult
    /\ pushed = << >>
    /\ popCount = 0
    /\ queue = << >>

Init == LoneInit /\ CMIdle /\ IterIdle

PushBack(v) ==
    /\ Len(pushed) + popCount < MaxOps
    /\ LET r == pushBack(buf, v)
       IN  /\ buf' = r.buf
           /\ result' = r.insertedRef
    /\ prev' = buf
    /\ lastOp' = "pushBack"
    /\ lastArg' = v
    /\ pushed' = Append(pushed, v)
    /\ queue' = QueuePush(queue, v, capacity)
    /\ UNCHANGED << capacity, popCount >>
    /\ UNCHANGED << cmvars, iter >>

PopFront ==
    /\ Len(pushed) + popCount < MaxOps
    /\ buf' = popFront(buf)
    /\ prev' = buf
    /\ lastOp' = "popFront"
    /\ lastArg' = 0
    /\ result' = NoResult
    /\ popCount' = popCount + 1
    /\ queue' = QueuePop(queue)
    /\ UNCHANGED << capacity, pushed >>
    /\ UNCHANGED << cmvars, iter >>

FindNthRecent(n) ==
    /\ result' = findNthRecent(buf, n).m_current
    /\ prev' = buf
    /\ lastOp' = "findNthRecent"
    /\ lastArg' = n
    /\ UNCHANGED << capacity, buf, pushed, popCount, queue >>
    /\ UNCHANGED << cmvars, iter >>

Next ==
    \/ \E v \in Values : PushBack(v)
    \/ PopFront
    \/ \E n \in Counts : FindNthRecent(n)

Spec == Init /\ [][Next]_allvars

\* ------------------------------------------- two objects: copy and move
ObjView(w, i)   == View(w.mem, w.objs[i])
ContentAt(w, i) == Content(ObjView(w, i))
SizeAt(w, i)    == size(ObjView(w, i))
Other(i)        == CHOOSE j \in Slots : j # i

\* what m_head and m_tail may hold when they have no initialiser
UninitPointers == {NullPtr, RegionBase(1) + 1}
UninitCursors(rev) ==
    IF HasCursorDefaults(rev)
    THEN {[h |-> NullPtr, t |-> NullPtr]}
    ELSE {[h |-> a, t |-> b] : a, b \in UninitPointers}

\* where a new block is placed: a std::array lies inside its object (region
\* slot); a vector's block is allocated first-fit, in the lowest region that
\* no object in live owns
NewPlaces(objs, kind, slot, live) ==
    IF kind = "array"
    THEN {RegionBase(slot)}
    ELSE LET free == {q \in Regions : \A i \in live : objs[i].m_begin # RegionBase(q)}
         IN  {RegionBase(CHOOSE r \in free : \A q \in free : r <= q)}

\* the lone buffer's variables while two objects are run
LoneIdle == LoneInit /\ capacity = 0

TwoObjects(kind1, c1, kind2, c2) ==
    LET o1 == Constructed(RawMemory, kind1, RegionBase(1), c1)
        o2 == Constructed(o1.mem, kind2, RegionBase(2), c2)
    IN  [mem |-> o2.mem, objs |-> << o1.this, o2.this >>]

\* Two objects of one type, compiled from revision rev.  The capacity of a
\* std::array-backed buffer is part of its type, so both have the same; two
\* vector-backed buffers may differ (by one slot here), and as the slots are
\* interchangeable the first is the smaller.
InitTwo(rev) ==
    /\ LoneIdle
    /\ IterIdle
    /\ revision = rev
    /\ \E kind \in Kinds, c1, c2 \in CMCapacities :
          /\ kind = "array" => c1 = c2
          /\ c1 <= c2 /\ c2 <= c1 + 1
          /\ world = TwoObjects(kind, c1, kind, c2)
    /\ prevWorld = world
    /\ lastCall = NoCall
    /\ copySnap = NoSnap
    /\ budget = [ops |-> 0, transfers |-> 0]

InitCM == InitTwo("part_000")

InitHpp == InitTwo("hpp")

Touch(i) == [copySnap EXCEPT !.touched = @ \cup {i}]

SnapOf(w, i, j) ==
    [valid |-> InBlock(w.objs[j]), dst |-> i, src |-> j,
     dstContent |-> ContentAt(w, i), srcContent |-> ContentAt(w, j), touched |-> {}]

\* the k-th pushBack or popFront call of a behaviour, when it is a push,
\* pushes the value k: pushed values are distinct, as in pushBack(i) of the
\* tests' loops
NextValue == budget.ops + 1

CMPushBack(i) ==
    /\ budget.ops < MaxCMOps
    /\ LET r == pushBackAt(world.mem, world.objs[i], NextValue)
       IN  world' = [mem |-> r.mem, objs |-> [world.objs EXCEPT ![i] = r.this]]
    /\ prevWorld' = world
    /\ lastCall' = [op |-> "pushBack", dst |-> i, src |-> 0, arg |-> NextValue]
    /\ copySnap' = Touch(i)
    /\ budget' = [budget EXCEPT !.ops = @ + 1]
    /\ UNCHANGED << revision, vars, iter >>

CMPopFront(i) ==
    /\ budget.ops < MaxCMOps
    /\ LET r == popFrontAt(world.mem, world.objs[i])
       IN  world' = [mem |-> r.mem, objs |-> [world.objs EXCEPT ![i] = r.this]]
    /\ prevWorld' = world
    /\ lastCall' = [op |-> "popFront", dst |-> i, src |-> 0, arg |-> 0]
    /\ copySnap' = Touch(i)
    /\ budget' = [budget EXCEPT !.ops = @ + 1]
    /\ UNCHANGED << revision, vars, iter >>

\* the object in slot i ends and a new one is copy-constructed there from j
CopyConstruct(i, j) ==
    /\ i # j
    /\ budget.transfers < MaxTransfers
    /\ \E base \in NewPlaces(world.objs, world.objs[j].kind, i, {j}) :
          LET r == copyConstruct(world.mem, base, world.objs[j])
              w == [mem |-> r.mem, objs |-> [world.objs EXCEPT ![i] = r.this]]
          IN  /\ world' = w
              /\ copySnap' = SnapOf(w, i, j)
    /\ prevWorld' = world
    /\ lastCall' = [op |-> "copyConstruct", dst |-> i, src |-> j, arg |-> 0]
    /\ budget' = [budget EXCEPT !.transfers = @ + 1]
    /\ UNCHANGED << revision, vars, iter >>

\* the object in slot i ends and a new one is move-constructed there from j;
\* the vector adapter of the hpp revision has no default constructor, so
\* its move constructor does not compile
MoveConstruct(i, j) ==
    /\ i # j
    /\ budget.transfers < MaxTransfers
    /\ ~(revision = "hpp" /\ world.objs[j].kind = "vector")
    /\ \E uninit \in UninitCursors(revision) :
          LET r == moveConstruct(revision, world.mem, RegionBase(i), world.objs[j], uninit)
          IN  world' = [mem |-> r.mem,
                        objs |-> [world.objs EXCEPT ![i] = r.this, ![j] = r.temporary]]
    /\ prevWorld' = world
    /\ lastCall' = [op |-> "moveConstruct", dst |-> i, src |-> j, arg |-> 0]
    /\ copySnap' = NoSnap
    /\ budget' = [budget EXCEPT !.transfers = @ + 1]
    /\ UNCHANGED << revision, vars, iter >>

\* objs[i] = objs[j], also with i = j
CopyAssign(i, j) ==
    /\ budget.transfers < MaxTransfers
    /\ \E base \in NewPlaces(world.objs, world.objs[j].kind, TempRegion, Slots) :
          LET r == copyAssign(revision, world.mem, world.objs[i], world.objs[j], i = j, base)
              w == [mem |-> r.mem, objs |-> [world.objs EXCEPT ![i] = r.this]]
          IN  /\ world' = w
              /\ copySnap' = IF i # j THEN SnapOf(w, i, j) ELSE NoSnap
    /\ prevWorld' = world
    /\ lastCall' = [op |-> "copyAssign", dst |-> i, src |-> j, arg |-> 0]
    /\ budget' = [budget EXCEPT !.transfers = @ + 1]
    /\ UNCHANGED << revision, vars, iter >>

\* objs[i] = std::move(objs[j]), also with i = j
MoveAssign(i, j) ==
    /\ budget.transfers < MaxTransfers
    /\ LET r == moveAssign(revision, world.mem, world.objs[i], world.objs[j], i = j)
       IN  world' = [mem |-> r.mem,
                     objs |-> IF i = j
                              THEN [world.objs EXCEPT ![i] = r.this]
                              ELSE [world.objs EXCEPT ![i] = r.this, ![j] = r.temporary]]
    /\ prevWorld' = world
    /\ lastCall' = [op |-> "moveAssign", dst |-> i, src |-> j, arg |-> 0]
    /\ copySnap' = NoSnap
    /\ budget' = [budget EXCEPT !.transfers = @ + 1]
    /\ UNCHANGED << revision, vars, iter >>

NextCM ==
    \/ \E i \in Slots : CMPushBack(i)
    \/ \E i \in Slots : CMPopFront(i)
    \/ \E i, j \in Slots : CopyConstruct(i, j)
    \/ \E i, j \in Slots : MoveConstruct(i, j)
    \/ \E i, j \in Slots : CopyAssign(i, j)
    \/ \E i, j \in Slots : MoveAssign(i, j)

SpecCM == InitCM /\ [][NextCM]_allvars

\* the same calls on objects compiled from src/include/circularBuffer.hpp
SpecHpp == InitHpp /\ [][NextCM]_allvars

\* --------------------- one call sequence on a vector and on a std::array
\* slot 1 is CircularBuffer<Trackable> (vector), slot 2 is
\* CircularBuffer<Trackable, ConstexprSizeBuffer<Trackable, N>>, same capacity N
InitKinds ==
    /\ LoneIdle
    /\ IterIdle
    /\ revision = "part_000"
    /\ \E c \in CMCapacities : world = TwoObjects("vector", c, "array", c)
    /\ prevWorld = world
    /\ lastCall = NoCall
    /\ copySnap = NoSnap
    /\ budget = [ops |-> 0, transfers |-> 0]

BothPushBack ==
    /\ budget.ops < MaxCMOps
    /\ LET r1 == pushBackAt(world.mem, world.objs[1], NextValue)
           r2 == pushBackAt(r1.mem, world.objs[2], NextValue)
       IN  world' = [mem |-> r2.mem, objs |-> << r1.this, r2.this >>]
    /\ prevWorld' = world
    /\ lastCall' = [op |-> "pushBack", dst |-> 0, src |-> 0, arg |-> NextValue]
    /\ budget' = [budget EXCEPT !.ops = @ + 1]
    /\ UNCHANGED << revision, copySnap, vars, iter >>

BothPopFront ==
    /\ budget.ops < MaxCMOps
    /\ LET r1 == popFrontAt(world.mem, world.objs[1])
           r2 == popFrontAt(r1.mem, world.objs[2])
       IN  world' = [mem |-> r2.mem, objs |-> << r1.this, r2.this >>]
    /\ prevWorld' = world
    /\ lastCall' = [op |-> "popFront", dst |-> 0, src |-> 0, arg |-> 0]
    /\ budget' = [budget EXCEPT !.ops = @ + 1]
    /\ UNCHANGED << revision, copySnap, vars, iter >>

\* findNthRecent is const: the objects stay as they are
BothFindNthRecent(n) ==
    /\ budget.ops < MaxCMOps
    /\ world' = world
    /\ prevWorld' = world
    /\ lastCall' = [op |-> "findNthRecent", dst |-> 0, src |-> 0, arg |-> n]
    /\ budget' = [budget EXCEPT !.ops = @ + 1]
    /\ UNCHANGED << revision, copySnap, vars, iter >>

NextKinds ==
    \/ BothPushBack
    \/ BothPopFront
    \/ \E n \in Counts : BothFindNthRecent(n)

SpecKinds == InitKinds /\ [][NextKinds]_allvars

\* ------------------------------------------- an iterator stepped on its own
\* an iterator over the block of a buffer of any capacity, at any slot
\* (head and tail, which begin() and end() start from, reach every slot)
InitIter ==
    /\ LoneInit
    /\ CMIdle
    /\ \E p \in bufferBegin(buf)..(bufferEnd(buf) - 1) :
          iter = [it |-> IteratorImpl(bufferBegin(buf), bufferEnd(buf), p),
                  trail |-> << p >>, ops |-> << >>]

\* ++it
Increment ==
    /\ Len(iter.ops) < MaxIterSteps
    /\ LET next == IterInc(iter.it)
       IN  iter' = [it |-> next, trail |-> Append(iter.trail, next.m_current),
                    ops |-> Append(iter.ops, "++")]
    /\ UNCHANGED << vars, cmvars >>

\* --it
Decrement ==
    /\ Len(iter.ops) < MaxIterSteps
    /\ LET next == IterDec(iter.it)
       IN  iter' = [it |-> next, trail |-> Append(iter.trail, next.m_current),
                    ops |-> Append(iter.ops, "--")]
    /\ UNCHANGED << vars, cmvars >>

NextIter ==
    \/ Increment
    \/ Decrement

SpecIter == InitIter /\ [][NextIter]_allvars

\* ----------------------------------------------------------------- claims
\* the iterator findNthRecent returned in the last call
ReturnedIterator == IteratorImpl(bufferBegin(buf), bufferEnd(buf), result)

\* C1: for every capacity N >= 0, after every pushBack and popFront call
\* size() <= N.
C1_SizeWithinCapacity == size(buf) <= capacity

C1_Witness ==
    /\ capacity >= 1
    /\ size(buf) = capacity
    /\ Len(pushed) > capacity + 1
    /\ popCount > 0

\* C2: for capacity N >= 1, after any interleaving of pushBack and popFront
\* the sequence read from begin() to end() equals the reference bounded
\* FIFO queue run on the same calls.
C2_RefinesBoundedQueue == capacity >= 1 => Content(buf) = queue

C2_Witness ==
    /\ capacity >= 2
    /\ popCount > 0
    /\ Len(pushed) - popCount > capacity
    /\ buf.m_tail < buf.m_head
    /\ Len(queue) >= 2

\* C3: after N + k pushBack calls (k >= 0) and no popFront on a buffer
\* constructed empty with capacity N, size() = N and begin()..end() reads
\* exactly the last N pushed values in push order.
C3_LastCapacityPushed ==
    (popCount = 0 /\ Len(pushed) >= capacity) =>
        /\ size(buf) = capacity
        /\ Content(buf) = SubSeq(pushed, Len(pushed) - capacity + 1, Len(pushed))

C3_Witness ==
    /\ popCount = 0
    /\ capacity >= 2
    /\ Len(pushed) >= 2 * capacity + 1
    /\ \E i, j \in 1..Len(pushed) : pushed[i] # pushed[j]

\* C4: pushBack on a full buffer of capacity >= 2 leaves size() = capacity
\* and makes front() the element that was second-oldest before the call.
C4_EvictsOldest ==
    (lastOp = "pushBack" /\ capacity >= 2 /\ size(prev) = capacity) =>
        /\ front(buf) = Content(prev)[2]
        /\ size(buf) = capacity

C4_Witness ==
    /\ lastOp = "pushBack"
    /\ capacity >= 2
    /\ size(prev) = capacity
    /\ Content(prev)[1] # Content(prev)[2]
    /\ prev.m_head = capacity

\* C5: for capacity N >= 1, right after pushBack(v) the buffer is not empty,
\* back() = v and size() = min(size before + 1, N).
C5_PushPostcondition ==
    (lastOp = "pushBack" /\ capacity >= 1) =>
        /\ ~empty(buf)
        /\ back(buf) = lastArg
        /\ size(buf) = Min(size(prev) + 1, capacity)

C5_Witness ==
    /\ lastOp = "pushBack"
    /\ capacity >= 1
    /\ buf.m_tail = bufferBegin(buf)
    /\ size(prev) = capacity

\* C6: popFront() on an empty buffer, in any reachable empty state, changes
\* nothing: size() stays 0, and m_head, m_tail and every slot are as before.
C6_PopEmptyIsNoOp ==
    (lastOp = "popFront" /\ empty(prev)) =>
        /\ size(buf) = 0
        /\ buf.m_head = prev.m_head
        /\ buf.m_tail = prev.m_tail
        /\ buf.m_buffer = prev.m_buffer

C6_Witness ==
    /\ lastOp = "popFront"
    /\ empty(prev)
    /\ Len(pushed) > 0
    /\ prev.m_head # bufferBegin(prev)

\* C7: popFront() on a non-empty buffer removes exactly the oldest element:
\* size() drops by one, the rest keep value and order, m_head advances one
\* slot with wraparound, m_tail and all slots are unchanged.
C7_PopRemovesOldest ==
    (lastOp = "popFront" /\ ~empty(prev)) =>
        /\ size(buf) = size(prev) - 1
        /\ Content(buf) = Tail(Content(prev))
        /\ buf.m_head = (prev.m_head + 1) % (capacity + 1)
        /\ buf.m_tail = prev.m_tail
        /\ buf.m_buffer = prev.m_buffer

C7_Witness ==
    /\ lastOp = "popFront"
    /\ size(prev) >= 2
    /\ prev.m_head = capacity
    /\ buf.m_head = bufferBegin(buf)

\* C8: in every reachable state empty(), m_head = m_tail, size() = 0 and
\* begin() = end() are equivalent, the freshly constructed buffer has
\* size() = 0, and a full buffer of capacity >= 1 has m_head # m_tail.
C8_EmptyEquivalences ==
    /\ empty(buf) <=> (buf.m_head = buf.m_tail)
    /\ (buf.m_head = buf.m_tail) <=> (size(buf) = 0)
    /\ (size(buf) = 0) <=> IterEq(begin(buf), end(buf))
    /\ lastOp = "construct" => size(buf) = 0
    /\ (capacity >= 1 /\ size(buf) = capacity) => buf.m_head # buf.m_tail
    /\ (capacity >= 1 /\ Len(queue) = capacity) => buf.m_head # buf.m_tail

C8_Witness ==
    /\ capacity >= 1
    /\ Len(queue) = capacity
    /\ size(buf) = capacity
    /\ buf.m_tail < buf.m_head

\* C9: on every non-empty state front() is the oldest live element, the
\* slot at m_head, and back() is the newest live element, the slot at
\* (m_tail - 1) modulo capacity + 1, also when m_tail is the first slot.
C9_FrontBack ==
    ~empty(buf) =>
        /\ front(buf) = Deref(buf, buf.m_head)
        /\ front(buf) = Head(queue)
        /\ back(buf) = Deref(buf, (buf.m_tail - 1) % (capacity + 1))
        /\ back(buf) = queue[Len(queue)]

C9_Witness ==
    /\ ~empty(buf)
    /\ buf.m_tail = bufferBegin(buf)
    /\ size(buf) >= 2
    /\ front(buf) # back(buf)

\* C10: for every n >= 0 the range [findNthRecent(n), end()) has exactly
\* min(n, size()) elements; n = 0 gives the empty range and n >= size()
\* gives the whole logical content.
C10_MostRecentCount ==
    /\ \A n \in Counts :
          LET r == mostRecent(buf, n)
          IN  /\ Len(r) = Min(n, size(buf))
              /\ n = 0 => r = << >>
              /\ n >= size(buf) => r = Content(buf)
    /\ lastOp = "findNthRecent" =>
          Len(Range(buf, ReturnedIterator, end(buf))) = Min(lastArg, size(buf))

C10_Witness ==
    /\ lastOp = "findNthRecent"
    /\ lastArg > size(buf)
    /\ size(buf) >= 2
    /\ buf.m_tail < buf.m_head
    /\ result > buf.m_tail

Reverse(s) == [i \in 1..Len(s) |-> s[Len(s) + 1 - i]]

Suffix(s, n) == SubSeq(s, Len(s) - n + 1, Len(s))

\* C11: for every n the elements of [findNthRecent(n), end()) are the
\* min(n, size()) most recent live values in oldest-to-newest order: the
\* suffix of that length of the logical content, also when the live window
\* wraps around the block end.
C11_MostRecentIsSuffix ==
    /\ \A n \in Counts :
          /\ mostRecent(buf, n) = Suffix(Content(buf), Min(n, size(buf)))
          /\ capacity >= 1 => mostRecent(buf, n) = Suffix(queue, Min(n, Len(queue)))
    /\ lastOp = "findNthRecent" =>
          Range(buf, ReturnedIterator, end(buf)) = Suffix(queue, Min(lastArg, Len(queue)))

C11_Witness ==
    /\ lastOp = "findNthRecent"
    /\ lastArg >= 2
    /\ lastArg < size(buf)
    /\ buf.m_tail < buf.m_head
    /\ result > buf.m_tail
    /\ queue[Len(queue)] # queue[Len(queue) - 1]

\* C12: the loop for (it = begin(); it != end(); ++it) ends after exactly
\* size() steps and visits the live elements oldest to newest; it never
\* visits the slot at m_tail nor any slot twice, nor leaves the block.
C12_ForwardIteration ==
    LET ps == ForwardPositions(buf)
    IN  /\ Len(ps) = size(buf)
        /\ \A i \in 1..Len(ps) :
              /\ ps[i] = (buf.m_head + i - 1) % (capacity + 1)
              /\ ps[i] # buf.m_tail
              /\ ps[i] >= bufferBegin(buf) /\ ps[i] < bufferEnd(buf)
        /\ capacity >= 1 => [i \in 1..Len(ps) |-> Deref(buf, ps[i])] = queue

C12_Witness ==
    /\ size(buf) >= 2
    /\ buf.m_tail < buf.m_head
    /\ buf.m_tail > bufferBegin(buf)
    /\ Len(ForwardPositions(buf)) = size(buf)

\* C13: the loop for (it = prev(end()); it != prev(begin()); --it) ends
\* after exactly size() steps in every reachable state and visits the
\* elements of the forward iteration in reverse order.
C13_ReverseIteration ==
    LET ps == ReversePositions(buf)
    IN  /\ Len(ps) = size(buf)
        /\ ps = Reverse(ForwardPositions(buf))
        /\ [i \in 1..Len(ps) |-> Deref(buf, ps[i])] = Reverse(Content(buf))

C13_Witness ==
    /\ size(buf) = capacity
    /\ capacity >= 2
    /\ buf.m_tail < buf.m_head
    /\ buf.m_head < capacity
    /\ Len(ReversePositions(buf)) = capacity

\* ------------------------------------------------ claims on copy and move
\* the object called and the object passed in the last call, then and now
DstNow  == world.objs[lastCall.dst]
SrcNow  == world.objs[lastCall.src]
DstThen == prevWorld.objs[lastCall.dst]
SrcThen == prevWorld.objs[lastCall.src]

ValuesOf(content) == [k \in 1..Len(content) |-> content[k].m_value]

\* the last call copied one object to another one from a source whose
\* cursors were in its block
CopiedLast ==
    /\ lastCall.op \in {"copyConstruct", "copyAssign"}
    /\ lastCall.dst # lastCall.src
    /\ InBlock(SrcThen)

\* the last call was op, moving one std::array-backed object to another one
\* from a source whose cursors were in its block
ArrayMovedLast(op) ==
    /\ lastCall.op = op
    /\ lastCall.dst # lastCall.src
    /\ SrcThen.kind = "array"
    /\ InBlock(SrcThen)

\* C14: after b2 = b1 (copy construction or copy assignment), pushBack and
\* popFront calls made on b1 only leave b2's size and logical content as
\* they were right after the copy, and calls made on b2 only leave b1's.
C14_CopyIndependence ==
    copySnap.valid =>
        /\ copySnap.touched \subseteq {copySnap.src} =>
              /\ ContentAt(world, copySnap.dst) = copySnap.dstContent
              /\ SizeAt(world, copySnap.dst) = Len(copySnap.dstContent)
        /\ copySnap.touched \subseteq {copySnap.dst} =>
              /\ ContentAt(world, copySnap.src) = copySnap.srcContent
              /\ SizeAt(world, copySnap.src) = Len(copySnap.srcContent)

\* a copy holding elements whose source has since been pushed to or popped
\* from until its content changed
C14_Witness ==
    /\ copySnap.valid
    /\ copySnap.touched = {copySnap.src}
    /\ copySnap.dstContent # << >>
    /\ ContentAt(world, copySnap.src) # copySnap.srcContent

\* C15: right after copy construction or copy assignment the destination
\* has the source's size() and the source's values in the same order, its
\* head and tail are at the same offsets from its own block start as the
\* source's from the source's block start, in a block of its own, and the
\* source (members, storage and content) is as it was before.
C15_CopyIsFaithful ==
    CopiedLast =>
        /\ SizeAt(world, lastCall.dst) = SizeAt(world, lastCall.src)
        /\ ValuesOf(ContentAt(world, lastCall.dst)) = ValuesOf(ContentAt(world, lastCall.src))
        /\ DstNow.m_head - bufferBegin(DstNow) = SrcNow.m_head - bufferBegin(SrcNow)
        /\ DstNow.m_tail - bufferBegin(DstNow) = SrcNow.m_tail - bufferBegin(SrcNow)
        /\ bufferBegin(DstNow) # bufferBegin(SrcNow)
        /\ SrcNow = SrcThen
        /\ Cells(world.mem, SrcNow.m_begin, SrcNow.m_size)
              = Cells(prevWorld.mem, SrcThen.m_begin, SrcThen.m_size)
        /\ ContentAt(world, lastCall.src) = ContentAt(prevWorld, lastCall.src)

\* a copy of a wrapped source (tail before head) that holds an element
C15_Witness ==
    /\ CopiedLast
    /\ SrcThen.m_tail < SrcThen.m_head
    /\ SizeAt(prevWorld, lastCall.src) >= 1

\* C16: move-constructing from a std::array-backed buffer gives the new
\* object the source's logical content in the same order, each element with
\* its move counter one higher and its copy counter and value as before.
C16_MoveConstructArray ==
    ArrayMovedLast("moveConstruct") =>
        ContentAt(world, lastCall.dst) = MovedCells(ContentAt(prevWorld, lastCall.src))

\* a move construction from an array-backed buffer holding two elements
C16_Witness ==
    /\ ArrayMovedLast("moveConstruct")
    /\ SizeAt(prevWorld, lastCall.src) >= 2
    /\ ContentAt(world, lastCall.dst)[1].m_moves = 2

\* C17: move-assigning a std::array-backed buffer to another one that
\* holds elements gives the destination the source's prior logical content
\* in order, each element with its move counter one higher and its copy
\* counter and value as before.
C17_MoveAssignArray ==
    ArrayMovedLast("moveAssign") /\ InBlock(DstThen) /\ SizeAt(prevWorld, lastCall.dst) >= 1 =>
        ContentAt(world, lastCall.dst) = MovedCells(ContentAt(prevWorld, lastCall.src))

\* a move assignment of two elements onto a buffer that held another one
C17_Witness ==
    /\ ArrayMovedLast("moveAssign")
    /\ InBlock(DstThen)
    /\ SizeAt(prevWorld, lastCall.dst) >= 1
    /\ SizeAt(prevWorld, lastCall.src) >= 2
    /\ SizeAt(world, lastCall.dst) = 2

\* the last call assigned an object to itself with operator op
SelfAssignedLast(op) == lastCall.op = op /\ lastCall.dst = lastCall.src

\* size, logical content (values and counters), head and tail of the
\* object called are what they were before the last call
CalledObjectUnchanged ==
    /\ SizeAt(world, lastCall.dst) = SizeAt(prevWorld, lastCall.dst)
    /\ ContentAt(world, lastCall.dst) = ContentAt(prevWorld, lastCall.dst)
    /\ DstNow = DstThen

C19_SelfMoveAssignIsNoOp ==
    SelfAssignedLast("moveAssign") => CalledObjectUnchanged

\* C20: after the same pushBack/popFront/findNthRecent calls on a
\* vector-backed and a std::array-backed buffer of one capacity, both
\* report the same size(), front(), back() and logical content, and the
\* same range for every findNthRecent count.
C20_BackendsAgree ==
    LET v == ObjView(world, 1)
        a == ObjView(world, 2)
    IN  /\ size(v) = size(a)
        /\ empty(v) = empty(a)
        /\ front(v) = front(a)
        /\ back(v) = back(a)
        /\ Content(v) = Content(a)
        /\ \A n \in Counts :
              Range(v, findNthRecent(v, n), end(v)) = Range(a, findNthRecent(a, n), end(a))

\* both backends full and wrapped after the same calls
C20_Witness ==
    /\ world.objs[1].kind = "vector" /\ world.objs[2].kind = "array"
    /\ budget.ops >= 2
    /\ size(ObjView(world, 1)) >= 1
    /\ world.objs[1].m_tail < world.objs[1].m_head
    /\ world.objs[2].m_tail < world.objs[2].m_head

\* the last call was a move construction or move assignment of one
\* vector-backed object to another one from a source whose cursors were in
\* its block
VectorMovedLast ==
    /\ lastCall.op \in {"moveConstruct", "moveAssign"}
    /\ lastCall.dst # lastCall.src
    /\ SrcThen.kind = "vector"
    /\ InBlock(SrcThen)

\* C21: moving a vector-backed buffer (construction or assignment) hands
\* over the storage block: the destination owns the block the source had,
\* no cell of it was written, and the destination's logical content is the
\* source's prior content in order with every copy and move counter as before.
C21_VectorMoveTransfersBlock ==
    VectorMovedLast =>
        /\ bufferBegin(DstNow) = bufferBegin(SrcThen)
        /\ DstNow.m_size = SrcThen.m_size
        /\ Cells(world.mem, DstNow.m_begin, DstNow.m_size)
              = Cells(prevWorld.mem, SrcThen.m_begin, SrcThen.m_size)
        /\ ContentAt(world, lastCall.dst) = ContentAt(prevWorld, lastCall.src)

\* a move of a vector-backed buffer holding two elements
C21_Witness ==
    /\ VectorMovedLast
    /\ SizeAt(prevWorld, lastCall.src) >= 2
    /\ ContentAt(world, lastCall.dst)[2].m_moves = 1

\* the last call was made on a vector-backed object with cursors in its
\* block; an assignment's source had them in its block too
VectorCalledLast(ops) ==
    /\ lastCall.op \in ops
    /\ DstThen.kind = "vector"
    /\ InBlock(DstThen)
    /\ lastCall.op \in {"copyAssign", "moveAssign"} => InBlock(SrcThen)

\* C22 as stated: pushBack, popFront, copy assignment and move assignment
\* leave the size of a vector-backed buffer's storage block as it was, also
\* when the source was constructed with a different capacity.
C22_BlockSizeNeverChanges ==
    VectorCalledLast({"pushBack", "popFront", "copyAssign", "moveAssign"}) =>
        DstNow.m_size = DstThen.m_size

\* C22 amended: pushBack and popFront leave the size of a vector-backed
\* buffer's storage block as it was; after copy or move assignment the
\* block has the size the source's block had, so the size is kept only when
\* the source was constructed with the same capacity.
C22_BlockSizeFollowsSource ==
    /\ VectorCalledLast({"pushBack", "popFront"}) => DstNow.m_size = DstThen.m_size
    /\ VectorCalledLast({"copyAssign", "moveAssign"}) => DstNow.m_size = SrcThen.m_size

\* an assignment between vector-backed buffers of different capacities
C22_Witness ==
    /\ VectorCalledLast({"copyAssign", "moveAssign"})
    /\ SrcThen.m_size # DstThen.m_size
    /\ DstNow.m_size = SrcThen.m_size

\* ------------------------------------- claims on cursors, size and pushBack
\* the slots of the lone buffer's storage block
BlockSlots == bufferBegin(buf)..(bufferEnd(buf) - 1)

\* C23: after every sequence of pushBack and popFront calls on a buffer
\* constructed with capacity N, head and tail are at offsets 0..N from the
\* block start; neither equals bufferEnd.
C23_CursorsInBlock ==
    /\ buf.m_head - bufferBegin(buf) \in 0..capacity
    /\ buf.m_tail - bufferBegin(buf) \in 0..capacity
    /\ buf.m_head # bufferEnd(buf)
    /\ buf.m_tail # bufferEnd(buf)

\* a pop that took head off the last slot, back to the block start
C23_Witness ==
    /\ lastOp = "popFront"
    /\ capacity >= 1
    /\ prev.m_head = bufferEnd(prev) - 1
    /\ buf.m_head = bufferBegin(buf)

\* C25: size() is (tail - head) modulo (capacity + 1): tail - head when
\* tail >= head, (bufferEnd - head) + (tail - bufferBegin) otherwise; and it
\* is the number of ++ steps from begin() to end().
C25_SizeIsModularDistance ==
    /\ size(buf) = (buf.m_tail - buf.m_head) % (capacity + 1)
    /\ buf.m_tail >= buf.m_head => size(buf) = buf.m_tail - buf.m_head
    /\ buf.m_tail < buf.m_head =>
          size(buf) = (bufferEnd(buf) - buf.m_head) + (buf.m_tail - bufferBegin(buf))
    /\ size(buf) = Len(ForwardPositions(buf))

\* a wrapped buffer (tail before head) holding at least two elements
C25_Witness ==
    /\ buf.m_tail < buf.m_head
    /\ Len(ForwardPositions(buf)) >= 2
    /\ buf.m_tail > bufferBegin(buf)

\* C26: pushBack(v) writes v into the slot tail named before the call and
\* returns a reference to that slot; for capacity >= 1 it is the slot
\* back() reads after the call (the one before end()).
C26_PushWritesOldTail ==
    lastOp = "pushBack" =>
        /\ result = prev.m_tail
        /\ Deref(buf, prev.m_tail) = lastArg
        /\ capacity >= 1 => IterDec(end(buf)).m_current = result

\* a push into the last slot of a full buffer: tail wraps, the oldest goes
C26_Witness ==
    /\ lastOp = "pushBack"
    /\ capacity >= 2
    /\ prev.m_tail = bufferEnd(prev) - 1
    /\ size(prev) = capacity
    /\ result = bufferEnd(buf) - 1

\* C27: pushBack(v) changes no slot but the one at the old tail; on a
\* non-full buffer head stays and the live elements keep their slots and
\* values; on a full buffer head advances one slot (with wraparound) and
\* the elements but the oldest keep their slots, values and order.
C27_PushFrame ==
    lastOp = "pushBack" =>
        /\ \A p \in BlockSlots : p # prev.m_tail => Deref(buf, p) = Deref(prev, p)
        /\ size(prev) < capacity =>
              /\ buf.m_head = prev.m_head
              /\ ForwardPositions(buf) = Append(ForwardPositions(prev), prev.m_tail)
              /\ Content(buf) = Append(Content(prev), lastArg)
        /\ size(prev) = capacity =>
              /\ buf.m_head = IterInc(begin(prev)).m_current
              /\ ForwardPositions(buf) = Tail(Append(ForwardPositions(prev), prev.m_tail))
              /\ Content(buf) = Tail(Append(Content(prev), lastArg))

\* a push on a full buffer whose head sat in the last slot
C27_Witness ==
    /\ lastOp = "pushBack"
    /\ capacity >= 2
    /\ size(prev) = capacity
    /\ prev.m_head = bufferEnd(prev) - 1
    /\ buf.m_head = bufferBegin(buf)

\* C28: elements leave in the order they were pushed: the live elements
\* are always the most recently pushed ones, popFront takes the oldest
\* live one, and a push evicts (the oldest) only when the buffer already
\* holds capacity elements.
C28_LeaveInPushOrder ==
    /\ Content(buf) = Suffix(pushed, size(buf))
    /\ lastOp = "popFront" =>
          Content(buf) = (IF Content(prev) = << >> THEN << >> ELSE Tail(Content(prev)))
    /\ lastOp = "pushBack" =>
          \/ size(buf) = size(prev) + 1
          \/ size(prev) = capacity /\ size(buf) = capacity

\* pops and evictions have both happened and two elements are live
C28_Witness ==
    /\ capacity >= 2
    /\ popCount >= 1
    /\ size(buf) >= 2
    /\ Len(pushed) - popCount > size(buf)
    /\ Content(buf)[1] # Content(buf)[2]

\* C24 as stated: after move construction from a source with cursors in
\* its block, for both storages, destination and source each have head and
\* tail inside their own block, the source is empty, and pushBack and
\* popFront act on it as on a freshly constructed buffer of its capacity.
C24_MoveConstructLeavesBothUsable ==
    (lastCall.op = "moveConstruct" /\ InBlock(SrcThen)) =>
        /\ InBlock(DstNow)
        /\ InBlock(SrcNow)
        /\ SizeAt(world, lastCall.src) = 0
        /\ LET pushedTo == pushBackAt(world.mem, SrcNow, DefaultValue)
               popped   == popFrontAt(world.mem, SrcNow)
           IN  /\ InBlock(pushedTo.this)
               /\ Content(View(pushedTo.mem, pushedTo.this))
                     = (IF SrcThen.m_size >= 2
                        THEN << TrackableMove(Trackable(DefaultValue)) >>
                        ELSE << >>)
               /\ popped.this = SrcNow

\* ---------------------------------------------- claims on the iterator
\* the iterator's position now, k steps ago, and its last k operations
IterNow == iter.it.m_current
IterAgo(k) == iter.trail[Len(iter.trail) - k]
LastOps(k) == SubSeq(iter.ops, Len(iter.ops) - k + 1, Len(iter.ops))
IterSlots == iter.it.m_bufferBegin..(iter.it.m_bufferEnd - 1)
FirstSlot == iter.it.m_bufferBegin
LastSlot == iter.it.m_bufferEnd - 1

\* C29: from any slot of a block of capacity + 1 slots ++ goes to the next
\* slot, from the last slot to the first; -- goes to the previous slot,
\* from the first slot to the last; the position is always a slot, never
\* the block end nor before the block start.
C29_IteratorStepsInBlock ==
    /\ iter.ops # << >> => IterNow \in IterSlots
    /\ (Len(iter.ops) >= 1 /\ LastOps(1) = << "++" >>) =>
          IterNow = (IF IterAgo(1) = LastSlot THEN FirstSlot ELSE IterAgo(1) + 1)
    /\ (Len(iter.ops) >= 1 /\ LastOps(1) = << "--" >>) =>
          IterNow = (IF IterAgo(1) = FirstSlot THEN LastSlot ELSE IterAgo(1) - 1)

\* a -- that wrapped from the first slot to the last, after a ++ that
\* wrapped from the last to the first
C29_Witness ==
    /\ capacity >= 1
    /\ Len(iter.ops) >= 2
    /\ LastOps(2) = << "++", "--" >>
    /\ IterAgo(1) = FirstSlot
    /\ IterNow = LastSlot

\* C30: --(++it) == it and ++(--it) == it at every slot, and ++ applied
\* capacity + 1 times comes back to the slot it started from.
C30_IteratorRoundTrips ==
    /\ (Len(iter.ops) >= 2 /\ LastOps(2) \in {<< "++", "--" >>, << "--", "++" >>}) =>
          IterEq(iter.it, [iter.it EXCEPT !.m_current = IterAgo(2)])
    /\ (Len(iter.ops) >= capacity + 1
        /\ \A k \in 1..(capacity + 1) : LastOps(capacity + 1)[k] = "++") =>
          IterEq(iter.it, [iter.it EXCEPT !.m_current = IterAgo(capacity + 1)])

\* a full cycle of ++ over a block of three or more slots
C30_Witness ==
    /\ capacity >= 2
    /\ Len(iter.ops) = capacity + 1
    /\ \A k \in 1..(capacity + 1) : iter.ops[k] = "++"
    /\ IterNow = iter.trail[1]

\* ------------------------------------------------ claims: findNthRecent
\* (tail - min(n, size())) modulo (capacity + 1), as an address of the block
StartSlot(b, n) ==
    bufferBegin(b)
      + ((b.m_tail - bufferBegin(b) - Min(n, size(b))) % (bufferEnd(b) - bufferBegin(b)))

\* C31: for every count n the position findNthRecent(n) returns is a slot
\* of the storage block, the one at (tail - min(n, size())) modulo
\* (capacity + 1); for n >= size() it is head, the position of begin().
C31_FindNthRecentPosition ==
    /\ \A n \in Counts :
          LET p == findNthRecent(buf, n).m_current
          IN  /\ p \in BlockSlots
              /\ p = StartSlot(buf, n)
              /\ n >= size(buf) => p = buf.m_head /\ p = begin(buf).m_current
    /\ lastOp = "findNthRecent" =>
          /\ result \in BlockSlots
          /\ result = StartSlot(buf, lastArg)
          /\ lastArg >= size(buf) => result = buf.m_head

\* a count below size() whose start lies before the block start and wraps
C31_Witness ==
    /\ lastOp = "findNthRecent"
    /\ lastArg >= 1
    /\ lastArg < size(buf)
    /\ buf.m_tail - lastArg < bufferBegin(buf)
    /\ result > buf.m_tail
    /\ result # buf.m_head

\* ------------------------------------- findNthRecent called with an int
SizeBits == 16        \* width of size_t, scaled down

SignedCounts == (-MaxCount)..MaxCount

\* the conversion of an int argument to the size_t parameter: modulo 2^w
ToSizeT(k) == k % (2 ^ SizeBits)

\* findNthRecent(k) with an int k, as findNthRecent(i - 1) of the tests
FindNthRecentInt(k) ==
    /\ result' = findNthRecent(buf, ToSizeT(k)).m_current
    /\ prev' = buf
    /\ lastOp' = "findNthRecent(int)"
    /\ lastArg' = k
    /\ UNCHANGED << capacity, buf, pushed, popCount, queue >>
    /\ UNCHANGED << cmvars, iter >>

NextSigned ==
    \/ \E v \in Values : PushBack(v)
    \/ PopFront
    \/ \E k \in SignedCounts : FindNthRecentInt(k)

SpecSigned == Init /\ [][NextSigned]_allvars

\* std::clamp(v, lo, hi)
Clamp(v, lo, hi) == IF v < lo THEN lo ELSE IF hi < v THEN hi ELSE v

\* C32 as stated: for every int k passed as the count (a negative k reaches
\* the function converted to size_t modulo 2^w) the range
\* [findNthRecent(k), cend()) has exactly clamp(k, 0, size()) elements.
C32_SignedCountClamps ==
    lastOp = "findNthRecent(int)" =>
        Len(Range(buf, ReturnedIterator, end(buf))) = Clamp(lastArg, 0, size(buf))

\* ------------------------------------------- claims: element transfers
\* the last call was pushBack on a buffer of capacity >= 1 whose cursors
\* were in its block
PushedLast ==
    /\ lastCall.op = "pushBack"
    /\ InBlock(DstThen)
    /\ DstThen.m_size >= 2

\* C33: pushBack of a value convertible to the element type stores the
\* element with one move and no copy, into a free slot as well as when the
\* push overwrites on a full buffer: the element back() reads right after
\* the push has move counter 1 and copy counter 0.
C33_PushMovesOnce ==
    PushedLast =>
        LET e == back(ObjView(world, lastCall.dst))
        IN  /\ e.m_value = lastCall.arg
            /\ e.m_moves = 1
            /\ e.m_copies = 0

\* a push that overwrote the oldest element of a full buffer, the tail
\* wrapping to the block start
C33_Witness ==
    /\ PushedLast
    /\ SizeAt(prevWorld, lastCall.dst) = DstThen.m_size - 1
    /\ SizeAt(world, lastCall.dst) = DstThen.m_size - 1
    /\ DstNow.m_tail = bufferBegin(DstNow)
    /\ DstThen.m_size >= 3

\* the last call copy-assigned one std::array-backed object to another one
\* from a source whose cursors were in its block
ArrayCopyAssignedLast ==
    /\ lastCall.op = "copyAssign"
    /\ lastCall.dst # lastCall.src
    /\ SrcThen.kind = "array"
    /\ InBlock(SrcThen)

\* C34: copy-assigning a std::array-backed buffer of Trackable elements
\* onto another buffer copies it into a temporary and move-assigns that:
\* the destination has the source's logical content in order, each element
\* with its copy counter and its move counter one higher than in the
\* source, and the source is as it was.
C34_CopyAssignArray ==
    ArrayCopyAssignedLast =>
        /\ ContentAt(world, lastCall.dst)
             = MovedCells(CopiedCells(ContentAt(prevWorld, lastCall.src)))
        /\ SizeAt(world, lastCall.dst) = SizeAt(prevWorld, lastCall.src)
        /\ SrcNow = SrcThen
        /\ Cells(world.mem, SrcNow.m_begin, SrcNow.m_size)
             = Cells(prevWorld.mem, SrcThen.m_begin, SrcThen.m_size)

\* a copy assignment of two elements onto a buffer that held another one
C34_Witness ==
    /\ ArrayCopyAssignedLast
    /\ SizeAt(prevWorld, lastCall.src) >= 2
    /\ SizeAt(prevWorld, lastCall.dst) = 1
    /\ ContentAt(world, lastCall.dst)[2].m_copies = 1
    /\ ContentAt(world, lastCall.dst)[2].m_moves = 2
    /\ ContentAt(world, lastCall.src)[2].m_copies = 0

\* the last call move-assigned one object to another one, both with their
\* cursors in their blocks
MoveAssignedLast ==
    /\ lastCall.op = "moveAssign"
    /\ lastCall.dst # lastCall.src
    /\ InBlock(DstThen)
    /\ InBlock(SrcThen)

\* C35: a = std::move(b) between two distinct constructed buffers exchanges
\* them: a has the size and logical content b had, b has the size and
\* logical content a had (a vector-backed buffer the very elements, a
\* std::array-backed one the same values in the same order), and the head
\* and tail of each are slots of its own storage block.
C35_MoveAssignExchanges ==
    MoveAssignedLast =>
        /\ SizeAt(world, lastCall.dst) = SizeAt(prevWorld, lastCall.src)
        /\ SizeAt(world, lastCall.src) = SizeAt(prevWorld, lastCall.dst)
        /\ ValuesOf(ContentAt(world, lastCall.dst)) = ValuesOf(ContentAt(prevWorld, lastCall.src))
        /\ ValuesOf(ContentAt(world, lastCall.src)) = ValuesOf(ContentAt(prevWorld, lastCall.dst))
        /\ DstThen.kind = "vector" =>
              /\ ContentAt(world, lastCall.dst) = ContentAt(prevWorld, lastCall.src)
              /\ ContentAt(world, lastCall.src) = ContentAt(prevWorld, lastCall.dst)
        /\ InBlock(DstNow)
        /\ InBlock(SrcNow)

\* two elements move-assigned onto a buffer that held another one
C35_Witness ==
    /\ MoveAssignedLast
    /\ SizeAt(prevWorld, lastCall.src) = 2
    /\ SizeAt(prevWorld, lastCall.dst) = 1
    /\ SizeAt(world, lastCall.dst) = 2
    /\ SizeAt(world, lastCall.src) = 1
    /\ ContentAt(world, lastCall.src)[1].m_value = ContentAt(prevWorld, lastCall.dst)[1].m_value

\* ------------------------------------- self move-assignment, no self-check
\* objs[i] = std::move(objs[i])
SelfMoveAssign(i) == MoveAssign(i, i)

NextSelfMove ==
    \/ \E i \in Slots : CMPushBack(i)
    \/ \E i \in Slots : CMPopFront(i)
    \/ \E i \in Slots : SelfMoveAssign(i)

\* buffers compiled from src/include/circularBuffer.hpp, pushed to, popped
\* from and move-assigned to themselves
SpecSelfMove == InitHpp /\ [][NextSelfMove]_allvars

\* C36: where operator=(CircularBuffer&&) has no self-check, b = std::move(b)
\* swaps the storage with itself and re-applies the saved displacements:
\* size(), the values of the logical content and their order, and the
\* offsets of head and tail in the block are as before, for a vector-backed
\* and for a std::array-backed buffer.
C36_SelfMoveAssignKeepsContent ==
    (SelfAssignedLast("moveAssign") /\ ~HasSelfCheck(revision) /\ InBlock(DstThen)) =>
        /\ SizeAt(world, lastCall.dst) = SizeAt(prevWorld, lastCall.dst)
        /\ ValuesOf(ContentAt(world, lastCall.dst)) = ValuesOf(ContentAt(prevWorld, lastCall.dst))
        /\ Displacements(DstNow) = Displacements(DstThen)
        /\ InBlock(DstNow)

\* a self move-assignment of a std::array-backed buffer holding two
\* elements, which the swap moved out and back
C36_Witness ==
    /\ SelfAssignedLast("moveAssign")
    /\ ~HasSelfCheck(revision)
    /\ DstThen.kind = "array"
    /\ SizeAt(prevWorld, lastCall.dst) = 2
    /\ DstThen.m_head # bufferBegin(DstThen)
    /\ ContentAt(world, lastCall.dst)[1].m_moves = 3
    /\ ValuesOf(ContentAt(world, lastCall.dst)) = ValuesOf(ContentAt(prevWorld, lastCall.dst))

\* ------------------------------------------------- claims: capacity zero
\* C37: a vector-backed buffer constructed with capacity 0 has the sentinel
\* slot only, and every pushBack leaves it empty: after any number of
\* pushes size() = 0, empty() holds and head = tail = the block start;
\* popFront stays a no-op.
C37_CapacityZeroStaysEmpty ==
    capacity = 0 =>
        /\ buf.m_size = 1
        /\ size(buf) = 0
        /\ empty(buf)
        /\ Content(buf) = << >>
        /\ buf.m_head = bufferBegin(buf)
        /\ buf.m_tail = bufferBegin(buf)
        /\ lastOp = "popFront" => buf = prev

\* a popFront after two pushes, the last of which is still in the slot
C37_Witness ==
    /\ capacity = 0
    /\ Len(pushed) >= 2
    /\ lastOp = "popFront"
    /\ Deref(buf, bufferBegin(buf)) = pushed[Len(pushed)]
    /\ pushed[Len(pushed)] # pushed[Len(pushed) - 1]

\* ------------------------------------------- claims: iterators of a buffer
\* IteratorImpl{}: the three pointers value-initialised
DefaultIterator == IteratorImpl(NullPtr, NullPtr, NullPtr)

\* assert(*this != IteratorImpl{}) of operator++, operator--, operator* and
\* operator->
AssertionHolds(it) == ~IterEq(it, DefaultIterator)

\* begin(), end(), cbegin(), cend() and findNthRecent(n) of b
Obtained(b) == {begin(b), end(b)} \cup {findNthRecent(b, n) : n \in Counts}

\* the iterators reached from those of S by at most steps applications of
\* ++ and --
RECURSIVE ReachedFrom(_, _)
ReachedFrom(S, steps) ==
    IF steps = 0
    THEN S
    ELSE ReachedFrom(S \cup {IterInc(it) : it \in S} \cup {IterDec(it) : it \in S}, steps - 1)

\* C38: for a buffer constructed with a capacity and never moved from,
\* every iterator obtained from begin(), end(), cbegin(), cend() or
\* findNthRecent(), or reached from one of them by ++ and --, has a
\* non-null current position: it differs from a default-constructed
\* iterator, so the assertions of ++, --, * and -> hold.
C38_IteratorsNeverNull ==
    \A i \in Slots :
        LET b == ObjView(world, i)
        IN  \A it \in ReachedFrom(Obtained(b), b.m_size) :
                /\ it.m_current # NullPtr
                /\ AssertionHolds(it)

\* after a findNthRecent call on buffers holding an element with the tail
\* wrapped to the block start: ++ from the last slot and -- from the first
\* are among the steps taken, and every slot is reached
C38_Witness ==
    /\ lastCall.op = "findNthRecent"
    /\ lastCall.arg >= 1
    /\ \A i \in Slots :
          LET b == ObjView(world, i)
          IN  /\ size(b) >= 1
              /\ b.m_tail < b.m_head
              /\ IterInc(IteratorImpl(bufferBegin(b), bufferEnd(b), bufferEnd(b) - 1))
                   \in ReachedFrom(Obtained(b), b.m_size)
              /\ Cardinality(ReachedFrom(Obtained(b), b.m_size)) = b.m_size

\* ------------------------------ copy assignment: the direct path
copyAssignDirect_keepsCursors(memory, this, copy, same) ==
    IF same
    THEN [mem |-> memory, this |-> this]
    ELSE [mem |-> WriteCells(memory, this.m_begin,
                             CopiedCells(Cells(memory, copy.m_begin, copy.m_size))),
          this |-> this]

\* operator=(const CircularBuffer& copy) for a storage that is nothrow
\* copy-assignable (a std::array of elements whose copy assignment is
\* noexcept): m_buffer = copy.m_buffer assigns every element of the array,
\* then head and tail are set from the offsets of copy's
copyAssignDirect(memory, this, copy, same) ==
    IF same
    THEN [mem |-> memory, this |-> this]
    ELSE [mem |-> WriteCells(memory, this.m_begin,
                             CopiedCells(Cells(memory, copy.m_begin, copy.m_size))),
          this |-> [this EXCEPT
                      !.m_head = bufferBegin(this) + getIndex(copy, copy.m_head),
                      !.m_tail = bufferBegin(this) + getIndex(copy, copy.m_tail)]]

\* two std::array-backed buffers of one type
InitDirect ==
    /\ InitCM
    /\ \A i \in Slots : world.objs[i].kind = "array"

\* objs[i] = objs[j] by the direct path, also with i = j
CopyAssignDirect(i, j) ==
    /\ budget.transfers < MaxTransfers
    /\ LET r == copyAssignDirect(world.mem, world.objs[i], world.objs[j], i = j)
       IN  world' = [mem |-> r.mem, objs |-> [world.objs EXCEPT ![i] = r.this]]
    /\ prevWorld' = world
    /\ lastCall' = [op |-> "copyAssignDirect", dst |-> i, src |-> j, arg |-> 0]
    /\ copySnap' = NoSnap
    /\ budget' = [budget EXCEPT !.transfers = @ + 1]
    /\ UNCHANGED << revision, vars, iter >>

NextDirect ==
    \/ \E i \in Slots : CMPushBack(i)
    \/ \E i \in Slots : CMPopFront(i)
    \/ \E i, j \in Slots : CopyAssignDirect(i, j)

SpecDirect == InitDirect /\ [][NextDirect]_allvars

\* what the fallback path, a temporary copy move-assigned to *this, makes
\* of the destination of the last call
FallbackDst ==
    LET r == copyAssign(revision, prevWorld.mem, DstThen, SrcThen,
                        lastCall.dst = lastCall.src, RegionBase(TempRegion))
    IN  View(r.mem, r.this)

\* C39: for a std::array-backed buffer whose storage is nothrow
\* copy-assignable, the direct path of copy assignment (assign the storage,
\* then set head and tail from the source's offsets) gives the destination
\* the same size, the same logical content and the same head and tail
\* offsets as the fallback path (copy-construct a temporary, move-assign it).
C39_DirectPathMatchesFallback ==
    (lastCall.op = "copyAssignDirect" /\ InBlock(SrcThen) /\ InBlock(DstThen)) =>
        LET direct == ObjView(world, lastCall.dst)
        IN  /\ size(direct) = size(FallbackDst)
            /\ ValuesOf(Content(direct)) = ValuesOf(Content(FallbackDst))
            /\ Displacements(direct) = Displacements(FallbackDst)
            /\ size(direct) = SizeAt(prevWorld, lastCall.src)
            /\ ValuesOf(Content(direct)) = ValuesOf(ContentAt(prevWorld, lastCall.src))

\* a buffer whose tail wrapped to the block start, copy-assigned by the
\* direct path onto a buffer that held another element at another offset
C39_Witness ==
    /\ lastCall.op = "copyAssignDirect"
    /\ lastCall.dst # lastCall.src
    /\ SizeAt(prevWorld, lastCall.src) >= 1
    /\ SrcThen.m_tail < SrcThen.m_head
    /\ SizeAt(prevWorld, lastCall.dst) = 1
    /\ Displacements(DstThen) # Displacements(SrcThen)
    /\ ValuesOf(ContentAt(prevWorld, lastCall.dst)) # ValuesOf(ContentAt(prevWorld, lastCall.src))
    /\ ValuesOf(ContentAt(world, lastCall.dst)) = ValuesOf(Content(FallbackDst))
    /\ Displacements(DstNow) = Displacements(SrcThen)
====
